---- MODULE Spec2Model ----
(***************************************************************************)
(* Model of docker/app/main.py: the text normaliser (preprocess_text),     *)
(* the lazily filled artifact cache (load_model_and_vectorizer) and the    *)
(* prediction endpoint (predict_fraud).  The endpoint is a plain `def`, so *)
(* the serving runtime runs requests on worker threads that interleave     *)
(* between the statements of load_model_and_vectorizer.                    *)
(***************************************************************************)
EXTENDS Integers, Sequences, FiniteSets, TLC

\* ------------------------------------------------------------------ bounds
NumThreads == 2
MaxCalls == 2
MaxSeqCalls == 3
MaxStoreChanges == 1
MaxLen == 3

Threads == 1..NumThreads

\* ------------------------------------------------------------ the registry
\* main.py:101-110.  identifier -> <<model filename, vectorizer filename>>
MODEL_CONFIG ==
    [ nb_bow       |-> <<"nb_model_bow.joblib",       "bow_vectorizer.joblib">>,
      nb_bow_res   |-> <<"nb_model_bow_res.joblib",   "bow_vectorizer.joblib">>,
      nb_tfidf     |-> <<"nb_model_tfidf.joblib",     "tfidf_vectorizer.joblib">>,
      nb_tfidf_res |-> <<"nb_model_tfidf_res.joblib", "tfidf_vectorizer.joblib">>,
      lr_bow       |-> <<"lr_model_bow.joblib",       "bow_vectorizer.joblib">>,
      lr_bow_res   |-> <<"lr_model_bow_res.joblib",   "bow_vectorizer.joblib">>,
      lr_tfidf     |-> <<"lr_model_tfidf.joblib",     "tfidf_vectorizer.joblib">>,
      lr_tfidf_res |-> <<"lr_model_tfidf_res.joblib", "tfidf_vectorizer.joblib">> ]

\* The labels the modelled requests carry: two registered identifiers that
\* share one vectorizer file, and one label that is not registered.
RequestLabels == {"nb_bow", "lr_bow", "made_up_model"}

Registered == DOMAIN MODEL_CONFIG \cap RequestLabels

\* The files of MODEL_ASSETS_DIR the requested identifiers name.
Files == UNION { {MODEL_CONFIG[l][1], MODEL_CONFIG[l][2]} : l \in Registered }

\* What joblib.load finds at a path: a loadable artifact, no file
\* (FileNotFoundError), or a file that does not deserialize.
FileStates == {"ok", "absent", "corrupt"}

\* A deserialization failure raises whatever the unpickler raises; what
\* matters to the handlers of predict_fraud is whether it is a ValueError.
CorruptErrors == {"ValueError", "OtherError"}

\* Python's None, for the locals that hold a loaded artifact.
None == [file |-> "None", call |-> 0]

VARIABLES
    model_cache,        \* main.py:53  identifier -> loaded model
    vectorizer_cache,   \* main.py:54  identifier -> loaded vectorizer
    stop_words,         \* main.py:57
    lemmatizer,         \* main.py:58  the lexicon the lemmatizer consults
    store,              \* the files of MODEL_ASSETS_DIR
    storeChanges,       \* number of out-of-band changes to the files
    pc,                 \* per thread: position in predict_fraud
    ncalls,             \* requests started so far
    callid,             \* per thread: the number of the request it serves
    data,               \* per thread: the PredictionRequest
    model,              \* per thread: local `model`
    vectorizer,         \* per thread: local `vectorizer`
    raised,             \* per thread: exception load_model_and_vectorizer raised
    outcome,            \* per thread: what the last predict_fraud call produced
    did,                \* per thread: operations performed by the current call
    pairLoads,          \* per identifier: times both artifacts were loaded
    first,              \* per identifier: the pair its first successful resolve returned
    failedLoads,        \* identifiers for which a load has failed
    nx, ny, nz, nstage  \* normaliser round trip: x, normalize(x), normalize(normalize(x))

cacheVars == <<model_cache, vectorizer_cache>>
threadVars == <<pc, ncalls, callid, data, model, vectorizer, raised, outcome, did>>
ghostVars == <<pairLoads, first, failedLoads>>
normVars == <<nx, ny, nz, nstage>>
textVars == <<stop_words, lemmatizer>>
vars == <<cacheVars, textVars, store, storeChanges, threadVars, ghostVars, normVars>>

\* ---------------------------------------------------------- text normaliser
\* A text is a sequence of units.  A unit is a run of characters that the
\* pipeline treats as a whole: a lower-case word fragment, an upper-case
\* letter, a blank, a punctuation mark.  Adjacent non-blank units form one
\* word ("can" "s" is the word "cans", "can" "not" the word "cannot").
Units == {"can", "not", "s", "S", " ", "!"}

RECURSIVE SeqsUpTo(_)
SeqsUpTo(n) ==
    IF n = 0 THEN {<<>>}
    ELSE LET shorter == SeqsUpTo(n - 1)
         IN  shorter \cup { Append(s, u) : s \in { t \in shorter : Len(t) = n - 1 }, u \in Units }

Texts == SeqsUpTo(MaxLen)

\* len(str): the number of characters.
RECURSIVE StrLen(_)
StrLen(text) ==
    IF text = <<>> THEN 0 ELSE Len(Head(text)) + StrLen(Tail(text))

\* main.py:83  str.lower()
Lower(u) == IF u = "S" THEN "s" ELSE u

LowerText(text) == [i \in 1..Len(text) |-> Lower(text[i])]

\* \w and \s of the regular expressions: "!" is neither.
IsWordOrSpace(u) == u # "!"

IsSpace(u) == u = " "

\* Mutant: only the first match is removed (re.sub with count=1).
RECURSIVE RemoveFirstPunct(_)
RemoveFirstPunct(string) ==
    IF string = <<>> THEN <<>>
    ELSE IF ~IsWordOrSpace(Head(string)) THEN Tail(string)
    ELSE <<Head(string)>> \o RemoveFirstPunct(Tail(string))

\* main.py:60-66  re.sub(r'[^\w\s]', '', string) on every string of the list
RemovePunct(string) == SelectSeq(string, IsWordOrSpace)

punctuation_remover(strings) == [i \in 1..Len(strings) |-> RemovePunct(strings[i])]

\* main.py:89  re.sub(r'\s+', ' ', text).strip()
RECURSIVE SquashSpaces(_)
SquashSpaces(text) ==
    IF Len(text) < 2 THEN text
    ELSE IF IsSpace(text[1]) /\ IsSpace(text[2]) THEN SquashSpaces(Tail(text))
    ELSE <<text[1]>> \o SquashSpaces(Tail(text))

RECURSIVE LStrip(_)
LStrip(text) ==
    IF text # <<>> /\ IsSpace(Head(text)) THEN LStrip(Tail(text)) ELSE text

RECURSIVE RStrip(_)
RStrip(text) ==
    IF text # <<>> /\ IsSpace(text[Len(text)])
    THEN RStrip(SubSeq(text, 1, Len(text) - 1)) ELSE text

CollapseWhitespace(text) == RStrip(LStrip(SquashSpaces(text)))

\* Splitting at blanks: the words of a text, each a sequence of units.
RECURSIVE SplitWords(_, _)
SplitWords(text, cur) ==
    IF text = <<>> THEN (IF cur = <<>> THEN <<>> ELSE <<cur>>)
    ELSE IF IsSpace(Head(text))
         THEN (IF cur = <<>> THEN <<>> ELSE <<cur>>) \o SplitWords(Tail(text), <<>>)
         ELSE SplitWords(Tail(text), Append(cur, Head(text)))

\* The tokenizer's contraction rule: the whole word "cannot" becomes the two
\* tokens "can" and "not"; every other word is one token.
Contract(word) ==
    IF word = <<"can", "not">> THEN << <<"can">>, <<"not">> >> ELSE <<word>>

RECURSIVE Flatten(_)
Flatten(seqs) ==
    IF seqs = <<>> THEN <<>> ELSE Head(seqs) \o Flatten(Tail(seqs))

\* main.py:92  word_tokenize(text), on text that holds only word characters
\* and single blanks
word_tokenize(text) ==
    LET words == SplitWords(text, <<>>)
    IN  Flatten([i \in 1..Len(words) |-> Contract(words[i])])

\* WordNetLemmatizer.lemmatize(word), noun form: the candidates are the word
\* itself and the word with its final "s" detached, each kept when it is in
\* the lexicon; the shortest candidate is the lemma, the word itself when
\* there is none.
Detached(word) ==
    IF Len(word) > 1 /\ word[Len(word)] = "s"
    THEN {SubSeq(word, 1, Len(word) - 1)} ELSE {}

lemmatize(lexicon, word) ==
    LET cands == ({word} \cup Detached(word)) \cap lexicon
    IN  IF cands = {} THEN word
        ELSE CHOOSE c \in cands : \A d \in cands : Len(c) <= Len(d)

\* main.py:95  [lemmatizer.lemmatize(word) for word in tokens if word not in stop_words]
RECURSIVE LemmatizeNonStop(_, _, _)
LemmatizeNonStop(tokens, stops, lexicon) ==
    IF tokens = <<>> THEN <<>>
    ELSE IF Head(tokens) \in stops
         THEN LemmatizeNonStop(Tail(tokens), stops, lexicon)
         ELSE <<lemmatize(lexicon, Head(tokens))>>
              \o LemmatizeNonStop(Tail(tokens), stops, lexicon)

\* main.py:98  ' '.join(tokens)
RECURSIVE Join(_)
Join(tokens) ==
    IF tokens = <<>> THEN <<>>
    ELSE IF Len(tokens) = 1 THEN Head(tokens)
    ELSE Head(tokens) \o <<" ">> \o Join(Tail(tokens))

\* main.py:68-98.  The request schema admits only strings, so the guard of
\* line 79 is met by the empty string alone.
KeptTokens(text, stops, lexicon) ==
    LET lowered == LowerText(text)
        nopunct == punctuation_remover(<<lowered>>)[1]
        squeezed == CollapseWhitespace(nopunct)
        tokens == word_tokenize(squeezed)
    IN  LemmatizeNonStop(tokens, stops, lexicon)

preprocess_text(text, stops, lexicon) ==
    IF text = <<>> THEN <<>> ELSE Join(KeptTokens(text, stops, lexicon))

\* --------------------------------------------------------------- the cache
\* The object a joblib.load call builds: every call deserializes afresh, so
\* the object is identified by the file and by the request that loaded it.
Loaded(f, n) == [file |-> f, call |-> n]

NoOutcome == [kind |-> "none"]

\* predict_fraud raises HTTPException(status_code, detail).
HttpError(status, cause, origin) ==
    [kind |-> "error", status |-> status, cause |-> cause, origin |-> origin]

\* Mutant: every exception is reported as a server error.
HandlerStatusAlways500(exc) == 500

\* main.py:168-173  the three handlers around load_model_and_vectorizer
HandlerStatus(exc) == IF exc = "ValueError" THEN 400 ELSE 500

\* What joblib.load raises for a file that is not loadable: FileNotFoundError
\* when there is no file, the unpickler's exception when it does not
\* deserialize.
LoadErrors(state) ==
    IF state = "absent" THEN {"FileNotFoundError"} ELSE CorruptErrors

\* main.py:130-131  joblib.load returns an object when the file is there and
\* deserializes.
Loadable(state) == state = "ok"

\* The pair a resolve returned, with the request that received it.
NoPair == [model |-> None, vectorizer |-> None, call |-> 0]

Returned(m, mdl, vec, n) ==
    IF first[m] = NoPair
    THEN [first EXCEPT ![m] = [model |-> mdl, vectorizer |-> vec, call |-> n]]
    ELSE first

\* main.py:129-140  an exception leaves the try block: FileNotFoundError is
\* re-raised as FileNotFoundError, anything else passes through; predict_fraud
\* (main.py:168-173) turns it into an HTTPException and the request ends.
Fail(t, exc, origin) ==
    /\ failedLoads' = IF origin = "load" THEN failedLoads \cup {data[t].model_label}
                                         ELSE failedLoads
    /\ raised' = [raised EXCEPT ![t] = exc]
    /\ outcome' = [outcome EXCEPT ![t] = HttpError(HandlerStatus(exc), exc, origin)]
    /\ pc' = [pc EXCEPT ![t] = "done"]
    /\ model' = [model EXCEPT ![t] = None]
    /\ vectorizer' = [vectorizer EXCEPT ![t] = None]

\* A request arrives (main.py:164) and load_model_and_vectorizer validates
\* its label (main.py:117-118).
Request(t, l, x) ==
    /\ pc[t] = "idle"
    /\ ncalls' = ncalls + 1
    /\ callid' = [callid EXCEPT ![t] = ncalls + 1]
    /\ data' = [data EXCEPT ![t] = [model_label |-> l, job_description |-> x]]
    /\ did' = [did EXCEPT ![t] = {"resolve"}]
    /\ IF l \notin DOMAIN MODEL_CONFIG
       THEN /\ raised' = [raised EXCEPT ![t] = "ValueError"]
            /\ outcome' = [outcome EXCEPT ![t] =
                              HttpError(HandlerStatus("ValueError"), "ValueError", "unknown_label")]
            /\ pc' = [pc EXCEPT ![t] = "done"]
       ELSE /\ pc' = [pc EXCEPT ![t] = "check_cache"]
            /\ UNCHANGED <<raised, outcome>>
    /\ UNCHANGED <<cacheVars, textVars, store, storeChanges, model, vectorizer,
                   ghostVars, normVars>>

\* Mutant: the hit condition looks at the model map alone.
IsHitModelOnly(m) == m \in DOMAIN model_cache

\* Mutant: the hit condition never holds.
IsHitNever(m) == FALSE

\* main.py:121  the hit condition
IsHit(m) == m \in DOMAIN model_cache /\ m \in DOMAIN vectorizer_cache

\* main.py:121-122  the cache check; on a hit the first component is read.
\* Entries are never deleted, so the two membership tests and this read see
\* what one atomic evaluation at the time of the read would see.
CheckCache(t) ==
    /\ pc[t] = "check_cache"
    /\ IF IsHit(data[t].model_label)
       THEN /\ model' = [model EXCEPT ![t] = model_cache[data[t].model_label]]
            /\ pc' = [pc EXCEPT ![t] = "hit_vectorizer"]
       ELSE /\ pc' = [pc EXCEPT ![t] = "load_model"]
            /\ UNCHANGED model
    /\ UNCHANGED <<cacheVars, textVars, store, storeChanges, ncalls, callid, data, vectorizer,
                   raised, outcome, did, ghostVars, normVars>>

\* main.py:122  the second component is read and the pair returned.  A key
\* that is not there raises KeyError.
HitReadVectorizer(t) ==
    /\ pc[t] = "hit_vectorizer"
    /\ LET m == data[t].model_label
       IN  IF m \in DOMAIN vectorizer_cache
           THEN /\ vectorizer' = [vectorizer EXCEPT ![t] = vectorizer_cache[m]]
                /\ pc' = [pc EXCEPT ![t] = "resolved"]
                /\ first' = Returned(m, model[t], vectorizer_cache[m], callid[t])
                /\ UNCHANGED <<raised, outcome, model, failedLoads>>
           ELSE /\ Fail(t, "OtherError", "cache")
                /\ UNCHANGED first
    /\ UNCHANGED <<cacheVars, textVars, store, storeChanges, ncalls, callid, data, did,
                   pairLoads, normVars>>

\* dict[key] = value
Put(cache, key, value) == [k \in DOMAIN cache \cup {key} |-> IF k = key THEN value ELSE cache[k]]

\* Mutant: the model is cached as soon as it is loaded, before the vectorizer.
LoadModelCaching(t) ==
    /\ pc[t] = "load_model"
    /\ LET m == data[t].model_label
           f == MODEL_CONFIG[m][1]
       IN  /\ did' = [did EXCEPT ![t] = @ \cup {"load_model"}]
           /\ IF Loadable(store[f])
              THEN /\ model' = [model EXCEPT ![t] = Loaded(f, callid[t])]
                   /\ model_cache' = Put(model_cache, m, Loaded(f, callid[t]))
                   /\ pc' = [pc EXCEPT ![t] = "load_vectorizer"]
                   /\ UNCHANGED <<raised, outcome, vectorizer, failedLoads>>
              ELSE /\ \E exc \in LoadErrors(store[f]) : Fail(t, exc, "load")
                   /\ UNCHANGED model_cache
    /\ UNCHANGED <<vectorizer_cache, textVars, store, storeChanges, ncalls, callid, data,
                   pairLoads, first, normVars>>

\* main.py:130  model = joblib.load(model_path)
LoadModel(t) ==
    /\ pc[t] = "load_model"
    /\ LET m == data[t].model_label
           f == MODEL_CONFIG[m][1]
       IN  /\ did' = [did EXCEPT ![t] = @ \cup {"load_model"}]
           /\ IF Loadable(store[f])
              THEN /\ model' = [model EXCEPT ![t] = Loaded(f, callid[t])]
                   /\ pc' = [pc EXCEPT ![t] = "load_vectorizer"]
                   /\ UNCHANGED <<raised, outcome, vectorizer, failedLoads>>
              ELSE \E exc \in LoadErrors(store[f]) : Fail(t, exc, "load")
    /\ UNCHANGED <<cacheVars, textVars, store, storeChanges, ncalls, callid, data,
                   pairLoads, first, normVars>>

\* main.py:131  vectorizer = joblib.load(vectorizer_path)
LoadVectorizer(t) ==
    /\ pc[t] = "load_vectorizer"
    /\ LET m == data[t].model_label
           f == MODEL_CONFIG[m][2]
       IN  /\ did' = [did EXCEPT ![t] = @ \cup {"load_vectorizer"}]
           /\ IF Loadable(store[f])
              THEN /\ vectorizer' = [vectorizer EXCEPT ![t] = Loaded(f, callid[t])]
                   /\ pc' = [pc EXCEPT ![t] = "store_model"]
                   /\ pairLoads' = [pairLoads EXCEPT ![m] = @ + 1]
                   /\ UNCHANGED <<raised, outcome, model, failedLoads>>
              ELSE /\ \E exc \in LoadErrors(store[f]) : Fail(t, exc, "load")
                   /\ UNCHANGED pairLoads
    /\ UNCHANGED <<cacheVars, textVars, store, storeChanges, ncalls, callid, data,
                   first, normVars>>

\* main.py:134  model_cache[model_label] = model
StoreModel(t) ==
    /\ pc[t] = "store_model"
    /\ model_cache' = Put(model_cache, data[t].model_label, model[t])
    /\ pc' = [pc EXCEPT ![t] = "store_vectorizer"]
    /\ UNCHANGED <<vectorizer_cache, textVars, store, storeChanges, ncalls, callid, data,
                   model, vectorizer, raised, outcome, did, ghostVars, normVars>>

\* main.py:135-138  vectorizer_cache[model_label] = vectorizer; return
StoreVectorizer(t) ==
    /\ pc[t] = "store_vectorizer"
    /\ vectorizer_cache' = Put(vectorizer_cache, data[t].model_label, vectorizer[t])
    /\ pc' = [pc EXCEPT ![t] = "resolved"]
    /\ first' = Returned(data[t].model_label, model[t], vectorizer[t], callid[t])
    /\ UNCHANGED <<model_cache, textVars, store, storeChanges, ncalls, callid, data,
                   model, vectorizer, raised, outcome, did, pairLoads, failedLoads, normVars>>

\* ------------------------------------------------------------ the endpoint
\* The classifier is opaque: predict returns a class code, predict_proba a
\* vector of two probabilities (here in percent) indexed by class code.
ClassCodes == {0, 1}

ProbVectors == {<<20, 80>>, <<80, 20>>}

\* The job descriptions of the modelled requests: "cans! not" and the empty
\* text.  Racing requests all carry the first; the text plays no part in the
\* cache.
RaceTexts == {<<"can", "s", "!", " ", "not">>}

RequestTexts == RaceTexts \cup {<<>>}

\* probabilities[int(prediction_code)]: Python indexes from 0.
ProbAt(probabilities, code) == probabilities[code + 1]

\* Mutant: the confidence is the larger probability, whatever the code.
ConfidenceMax(probabilities, code) ==
    IF probabilities[1] >= probabilities[2] THEN probabilities[1] ELSE probabilities[2]

\* main.py:188
ConfidenceScore(probabilities, code) == ProbAt(probabilities, code)

\* main.py:191
ResultLabel(code) == IF code = 1 THEN "Fraudulent (Fake)" ELSE "Non-Fraudulent (Real)"

\* Mutant: the response does not say which model served it.
ResponseWithoutModel(d, cleaned_text, code, probabilities) ==
    [kind |-> "response",
     prediction_label |-> ResultLabel(code),
     prediction_code |-> code,
     confidence_score |-> ConfidenceScore(probabilities, code),
     probabilities |-> [non_fraudulent |-> ProbAt(probabilities, 0),
                        fraudulent |-> ProbAt(probabilities, 1)],
     input_text_length |-> StrLen(d.job_description),
     cleaned_text_length |-> StrLen(cleaned_text)]

\* main.py:193-204
Response(d, cleaned_text, code, probabilities) ==
    [kind |-> "response",
     prediction_label |-> ResultLabel(code),
     prediction_code |-> code,
     confidence_score |-> ConfidenceScore(probabilities, code),
     probabilities |-> [non_fraudulent |-> ProbAt(probabilities, 0),
                        fraudulent |-> ProbAt(probabilities, 1)],
     input_text_length |-> StrLen(d.job_description),
     cleaned_text_length |-> StrLen(cleaned_text),
     model_used |-> d.model_label]

\* main.py:176-204  after the pair is resolved: normalise, transform,
\* predict, predict_proba, build the response.  None of it touches shared
\* state, so it is one step.
Infer(t, code, probabilities) ==
    /\ pc[t] = "resolved"
    /\ LET cleaned_text == preprocess_text(data[t].job_description, stop_words, lemmatizer)
       IN  outcome' = [outcome EXCEPT ![t] = Response(data[t], cleaned_text, code, probabilities)]
    /\ did' = [did EXCEPT ![t] = @ \cup {"normalize", "transform", "predict", "predict_proba"}]
    /\ pc' = [pc EXCEPT ![t] = "done"]
    /\ model' = [model EXCEPT ![t] = None]
    /\ vectorizer' = [vectorizer EXCEPT ![t] = None]
    /\ UNCHANGED <<cacheVars, textVars, store, storeChanges, ncalls, callid, data, raised,
                   ghostVars, normVars>>

\* The transport sends the response or the error and the worker thread is
\* free again; the frame of predict_fraud is gone.
NoRequest == [model_label |-> "nb_bow", job_description |-> <<>>]

Return(t) ==
    /\ pc[t] = "done"
    /\ pc' = [pc EXCEPT ![t] = "idle"]
    /\ outcome' = [outcome EXCEPT ![t] = NoOutcome]
    /\ raised' = [raised EXCEPT ![t] = "none"]
    /\ data' = [data EXCEPT ![t] = NoRequest]
    /\ did' = [did EXCEPT ![t] = {}]
    /\ callid' = [callid EXCEPT ![t] = 0]
    /\ UNCHANGED <<cacheVars, textVars, store, storeChanges, ncalls, model, vectorizer,
                   ghostVars, normVars>>

\* The artifact directory is written out of band: a file appears, vanishes
\* or is replaced by one that does not deserialize.
StoreChange(f, st) ==
    /\ storeChanges < MaxStoreChanges
    /\ store[f] # st
    /\ store' = [store EXCEPT ![f] = st]
    /\ storeChanges' = storeChanges + 1
    /\ UNCHANGED <<cacheVars, textVars, threadVars, ghostVars, normVars>>

\* ------------------------------------------------------- the normaliser run
\* normalize applied to an input, and then to its own output.
NormalizeInput ==
    /\ nstage = "input"
    /\ ny' = preprocess_text(nx, stop_words, lemmatizer)
    /\ nstage' = "once"
    /\ UNCHANGED <<cacheVars, textVars, store, storeChanges, threadVars, ghostVars, nx, nz>>

NormalizeOutput ==
    /\ nstage = "once"
    /\ nz' = preprocess_text(ny, stop_words, lemmatizer)
    /\ nstage' = "twice"
    /\ UNCHANGED <<cacheVars, textVars, store, storeChanges, threadVars, ghostVars, nx, ny>>

\* ---------------------------------------------------------- specifications
\* The stop-word list holds "can", "not" and "s"; the lexicon holds the noun
\* "can".
EnglishStopWords == {<<"can">>, <<"not">>, <<"s">>}

WordNetNouns == {<<"can">>}

StopWordSets == SUBSET {<<"can">>, <<"not">>}

Lexicons == SUBSET {<<"can">>, <<"can", "s">>, <<"can", "not">>}

InitProcess ==
    /\ model_cache = <<>>
    /\ vectorizer_cache = <<>>
    /\ storeChanges = 0
    /\ pc = [t \in Threads |-> "idle"]
    /\ ncalls = 0
    /\ callid = [t \in Threads |-> 0]
    /\ data = [t \in Threads |-> NoRequest]
    /\ model = [t \in Threads |-> None]
    /\ vectorizer = [t \in Threads |-> None]
    /\ raised = [t \in Threads |-> "none"]
    /\ outcome = [t \in Threads |-> NoOutcome]
    /\ did = [t \in Threads |-> {}]
    /\ pairLoads = [m \in Registered |-> 0]
    /\ first = [m \in Registered |-> NoPair]
    /\ failedLoads = {}

Init ==
    /\ InitProcess
    /\ store \in [Files -> FileStates]
    /\ stop_words = EnglishStopWords
    /\ lemmatizer = WordNetNouns
    /\ nx = <<>> /\ ny = <<>> /\ nz = <<>> /\ nstage = "off"

Step(t) ==
    \/ CheckCache(t)
    \/ HitReadVectorizer(t)
    \/ LoadModel(t)
    \/ LoadVectorizer(t)
    \/ StoreModel(t)
    \/ StoreVectorizer(t)
    \/ \E code \in ClassCodes, probabilities \in ProbVectors : Infer(t, code, probabilities)
    \/ Return(t)

\* A request is taken up by a free worker thread while others are in flight.
Call(t, l, x) == ncalls < MaxCalls /\ Request(t, l, x)

Next ==
    \/ \E t \in Threads, l \in RequestLabels, x \in RaceTexts : Call(t, l, x)
    \/ \E t \in Threads : Step(t)

\* Requests on worker threads, interleaved between the statements of
\* load_model_and_vectorizer, over any artifact directory; the directory does
\* not change while the process runs.
Spec == Init /\ [][Next]_vars

\* One request at a time: a request starts only when no other is in flight.
\* The artifact directory may change between and during requests.
AllIdle == \A t \in Threads : pc[t] = "idle"

CallSeq(t, l, x) == AllIdle /\ ncalls < MaxSeqCalls /\ Request(t, l, x)

NextSeq ==
    \/ \E t \in Threads, l \in RequestLabels, x \in RequestTexts : CallSeq(t, l, x)
    \/ \E t \in Threads : Step(t)
    \/ \E f \in Files, st \in FileStates : StoreChange(f, st)

SpecSeq == Init /\ [][NextSeq]_vars

\* The normaliser alone, over every text, stop-word set and lexicon in bounds.
InitNorm ==
    /\ InitProcess
    /\ store = [f \in Files |-> "ok"]
    /\ stop_words \in StopWordSets
    /\ lemmatizer \in Lexicons
    /\ nx \in Texts
    /\ ny = <<>> /\ nz = <<>> /\ nstage = "input"

NextNorm == NormalizeInput \/ NormalizeOutput

SpecNorm == InitNorm /\ [][NextNorm]_vars

\* ------------------------------------------------------------------ claims
LabelOf(t) == data[t].model_label

\* Both maps hold the identifier.
Stored(m) == m \in DOMAIN model_cache /\ m \in DOMAIN vectorizer_cache

LoadSteps == {"load_model", "load_vectorizer"}

InferenceSteps == {"normalize", "transform", "predict", "predict_proba"}

\* C1: under any interleaving of concurrent resolves for one registered
\* identifier, its pair of artifacts is loaded from storage at most once.
C1_LoadedAtMostOnce == \A m \in Registered : pairLoads[m] <= 1

\* C2: no partially populated entry is served.  Every pair a resolve returns
\* holds a loaded classifier and a loaded transformer, each built from the
\* file the registry names for the identifier; the hit path is entered only
\* when both components are stored, and it never finds a component missing.
C2_NoPartialEntryServed ==
    \A t \in Threads :
        /\ pc[t] = "hit_vectorizer" =>
              /\ Stored(LabelOf(t))
              /\ model[t] # None
        /\ pc[t] = "resolved" =>
              /\ model[t] # None /\ vectorizer[t] # None
              /\ model[t].file = MODEL_CONFIG[LabelOf(t)][1]
              /\ vectorizer[t].file = MODEL_CONFIG[LabelOf(t)][2]
        /\ pc[t] = "done" /\ outcome[t].kind = "error" => outcome[t].origin # "cache"

\* A pair has been served for an identifier while another request is
\* between its two cache writes for the same identifier.
C2_Witness ==
    \E t \in Threads, u \in Threads :
        /\ pc[t] = "resolved"
        /\ pc[u] = "store_vectorizer"
        /\ LabelOf(u) = LabelOf(t)

\* C3: in a sequential run, once a resolve of m has succeeded, every later
\* resolve of m returns the very instances the first one returned and loads
\* nothing; the pair of m is loaded once.
C3_SecondResolveIsCached ==
    /\ \A m \in Registered : pairLoads[m] <= 1
    /\ \A t \in Threads :
          pc[t] = "resolved" =>
              /\ model[t] = first[LabelOf(t)].model
              /\ vectorizer[t] = first[LabelOf(t)].vectorizer
              /\ first[LabelOf(t)].call # callid[t] => did[t] \cap LoadSteps = {}
              /\ pairLoads[LabelOf(t)] = 1

\* A later request has resolved an identifier that an earlier request
\* resolved first.
C3_Witness ==
    \E t \in Threads :
        /\ pc[t] = "resolved"
        /\ first[LabelOf(t)].call # callid[t]

\* C4: a label that is not a key of the registry fails with the unknown-model
\* error (ValueError) whatever the cache holds, loads nothing, leaves both
\* cache maps as they were, and reaches the client as a 400.
C4_UnknownStep(t) ==
    LabelOf(t)' \notin DOMAIN MODEL_CONFIG /\ pc[t] = "idle" /\ pc'[t] # "idle"

C4_UnknownModelRejected ==
    /\ [](\A t \in Threads :
            LabelOf(t) \notin DOMAIN MODEL_CONFIG =>
                /\ pc[t] = "done"
                /\ raised[t] = "ValueError"
                /\ outcome[t] = HttpError(400, "ValueError", "unknown_label")
                /\ did[t] = {"resolve"})
    /\ [][\A t \in Threads :
            C4_UnknownStep(t) =>
                /\ pc'[t] = "done"
                /\ UNCHANGED <<model_cache, vectorizer_cache, store, pairLoads>>]_vars

\* An unknown label was rejected while the cache held a complete entry.
C4_Witness ==
    \E t \in Threads :
        /\ pc[t] = "done"
        /\ LabelOf(t) \notin DOMAIN MODEL_CONFIG
        /\ \E m \in Registered : Stored(m)

\* C5: a load that fails on a cache miss, because the file is absent or
\* because it does not deserialize, leaves resolve with the one error kind
\* of a missing artifact (FileNotFoundError), and predict reports that kind.
C5_LoadFailureIsArtifactMissing ==
    \A t \in Threads :
        pc[t] = "done" /\ outcome[t].kind = "error" /\ outcome[t].origin = "load" =>
            /\ raised[t] = "FileNotFoundError"
            /\ outcome[t].cause = "FileNotFoundError"
            /\ outcome[t].status = 500

\* C6: a resolve that fails records nothing.  In a sequential run, after a
\* load failure for m neither map holds m, also when the classifier had
\* been loaded before the transformer failed; the failing step changes
\* neither map; a map holds m only after both artifacts of m were loaded;
\* and a resolve fails at a load only when the file it is loading is not
\* loadable, so the next resolve loads again and succeeds once the files
\* are loadable.
C6_LoadedFile(t) ==
    IF pc[t] = "load_model" THEN MODEL_CONFIG[LabelOf(t)][1] ELSE MODEL_CONFIG[LabelOf(t)][2]

C6_FailedResolveRecordsNothing ==
    /\ [](\A t \in Threads :
            pc[t] = "done" /\ outcome[t].kind = "error" /\ outcome[t].origin = "load" =>
                /\ LabelOf(t) \notin DOMAIN model_cache
                /\ LabelOf(t) \notin DOMAIN vectorizer_cache)
    /\ [](\A m \in Registered :
            m \in DOMAIN model_cache \/ m \in DOMAIN vectorizer_cache => pairLoads[m] >= 1)
    /\ [][\A t \in Threads :
            pc[t] \in LoadSteps /\ pc'[t] = "done" =>
                /\ UNCHANGED <<model_cache, vectorizer_cache>>
                /\ store[C6_LoadedFile(t)] # "ok"]_vars

\* After a load failure for an identifier, a later request has loaded both of
\* its artifacts and resolved it.
C6_Witness ==
    \E t \in Threads :
        /\ pc[t] = "resolved"
        /\ LabelOf(t) \in failedLoads
        /\ LoadSteps \subseteq did[t]
        /\ Stored(LabelOf(t))

\* C7: a predict call ends either in an error and no response, or in a
\* response with all seven fields.  When resolve fails nothing of the
\* inference pipeline has run.
ResponseFields ==
    {"prediction_label", "prediction_code", "confidence_score", "probabilities",
     "input_text_length", "cleaned_text_length", "model_used"}

C7_ErrorOrCompleteResponse ==
    \A t \in Threads :
        pc[t] = "done" =>
            \/ /\ outcome[t].kind = "error"
               /\ DOMAIN outcome[t] \cap ResponseFields = {}
               /\ raised[t] # "none"
               /\ did[t] \cap InferenceSteps = {}
            \/ /\ outcome[t].kind = "response"
               /\ ResponseFields \subseteq DOMAIN outcome[t]
               /\ DOMAIN outcome[t].probabilities = {"non_fraudulent", "fraudulent"}
               /\ outcome[t].model_used = LabelOf(t)
               /\ outcome[t].input_text_length = StrLen(data[t].job_description)
               /\ raised[t] = "none"
               /\ InferenceSteps \subseteq did[t]

\* A request ended in an error after its classifier was loaded and its
\* transformer was not.
C7_Witness ==
    \E t \in Threads :
        /\ pc[t] = "done"
        /\ outcome[t].kind = "error"
        /\ "load_vectorizer" \in did[t]

\* C8: in every response the confidence is the entry of the probability
\* vector at the returned class code, and the code is 0 or 1.
C8_ConfidenceIsProbabilityOfCode ==
    \A t \in Threads :
        pc[t] = "done" /\ outcome[t].kind = "response" =>
            /\ outcome[t].prediction_code \in {0, 1}
            /\ outcome[t].confidence_score =
                  IF outcome[t].prediction_code = 0
                  THEN outcome[t].probabilities.non_fraudulent
                  ELSE outcome[t].probabilities.fraudulent

\* A response whose class code is not the more probable class.
C8_Witness ==
    \E t \in Threads :
        /\ pc[t] = "done" /\ outcome[t].kind = "response"
        /\ outcome[t].prediction_code = 0
        /\ outcome[t].probabilities.non_fraudulent < outcome[t].probabilities.fraudulent

C9_TokensSettled ==
    \A i \in 1..Len(KeptTokens(nx, stop_words, lemmatizer)) :
        LET w == KeptTokens(nx, stop_words, lemmatizer)[i]
        IN  /\ w \notin stop_words
            /\ lemmatize(lemmatizer, w) = w
            /\ Contract(w) = <<w>>

C10_EntryStable ==
    [][\A m \in Registered :
          Stored(m) =>
              /\ m \in DOMAIN model_cache' /\ m \in DOMAIN vectorizer_cache'
              /\ model_cache'[m] = model_cache[m]
              /\ vectorizer_cache'[m] = vectorizer_cache[m]]_vars

====
